---- MODULE Spec2Model ----
(***************************************************************************)
(* HPCG_Init (src/src/init.cpp): resolution of the run parameters of an    *)
(* HPCG run by a group of MPI processes.  Every process of the group runs  *)
(* HPCG_Init on the same argument list; the model is of the MPI build      *)
(* (HPCG_NO_MPI undefined), in its default and its debug flavour.          *)
(*                                                                         *)
(* A C string is a sequence of one-character strings.  argv is modelled    *)
(* without argv[0]: args[i] is argv[i] for 1 <= i < argc, argc is          *)
(* Len(args) + 1 and argv[argc] is the terminating null pointer.           *)
(* iparams[j] of the code is slot j + 1 of a ten-slot sequence.            *)
(***************************************************************************)
EXTENDS Integers, Sequences, FiniteSets, TLC

\* ------------------------------------------------------------ bounds
\* Number of processes of the group (ranks 0 .. NumProcs - 1).
NumProcs == 3
\* Longest argument list of the command-line specification.
MaxArgs == 4

\* -------------------------------------------------- program constants
nparams == 10
MinPositional == 10
MinDim == 16

cparams ==
  << <<"-", "-", "n", "x", "=">>,
     <<"-", "-", "n", "y", "=">>,
     <<"-", "-", "n", "z", "=">>,
     <<"-", "-", "r", "t", "=">>,
     <<"-", "-", "p", "z", "=">>,
     <<"-", "-", "z", "l", "=">>,
     <<"-", "-", "z", "u", "=">>,
     <<"-", "-", "n", "p", "x", "=">>,
     <<"-", "-", "n", "p", "y", "=">>,
     <<"-", "-", "n", "p", "z", "=">> >>

\* ------------------------------------------------------------ strings
Digits == <<"0", "1", "2", "3", "4", "5", "6", "7", "8", "9">>

IsDigit(c) == \E d \in 1..10 : Digits[d] = c

DigitVal(c) == (CHOOSE d \in 1..10 : Digits[d] = c) - 1

IsSpace(c) == c \in {" ", "\t", "\n"}

\* strncmp(s, prefix, strlen(prefix)) == 0
startswith(s, prefix) ==
  /\ Len(s) >= Len(prefix)
  /\ \A k \in 1..Len(prefix) : s[k] = prefix[k]

RECURSIVE SkipSpace(_, _)
SkipSpace(s, i) ==
  IF i <= Len(s) /\ IsSpace(s[i]) THEN SkipSpace(s, i + 1) ELSE i

RECURSIVE ReadDigits(_, _, _)
ReadDigits(s, i, acc) ==
  IF i <= Len(s) /\ IsDigit(s[i])
    THEN ReadDigits(s, i + 1, 10 * acc + DigitVal(s[i]))
    ELSE acc

\* sscanf(s, "%d", &out): n is the return value (-1 is EOF), val the integer
\* stored when n = 1.  Leading white space is skipped, one sign is accepted,
\* the conversion stops at the first character that is no digit.  The
\* arguments considered hold at most three digits, far from the range of int.
sscanf_d(s) ==
  LET i0 == SkipSpace(s, 1)
      signed == i0 <= Len(s) /\ s[i0] \in {"-", "+"}
      i1 == IF signed THEN i0 + 1 ELSE i0
      mag == ReadDigits(s, i1, 0)
  IN  IF i0 > Len(s) \/ i1 > Len(s) THEN [n |-> -1, val |-> 0]
      ELSE IF ~(i1 <= Len(s) /\ IsDigit(s[i1])) THEN [n |-> 0, val |-> 0]
      ELSE [n |-> 1, val |-> IF signed /\ s[i0] = "-" THEN -mag ELSE mag]

\* argv[i] + strlen(prefix)
Suffix(s, prefix) == SubSeq(s, Len(prefix) + 1, Len(s))

\* ------------------------------------------------- command-line parsing
ZeroParams == [k \in 1..nparams |-> 0]

\* One iteration of the loop of lines 84-85, for index i (0-based):
\* the slot is 0 unless argv[i+1] exists, converts and is at least 10.
PositionalSlot(args, i) ==
  IF Len(args) + 1 <= i + 1 THEN 0
  ELSE LET r == sscanf_d(args[i + 1])
       IN  IF r.n # 1 \/ r.val < MinPositional THEN 0 ELSE r.val

\* The loop of lines 84-85 over all its indices.
PositionalScan(args) == [k \in 1..nparams |-> PositionalSlot(args, k - 1)]

\* PrefixSlot without the reset of line 92: an unparsable suffix leaves the
\* slot as it was.
PrefixSlotNoReset(old, a, k) ==
  IF startswith(a, cparams[k])
    THEN LET r == sscanf_d(Suffix(a, cparams[k]))
         IN  IF r.n # 1 THEN old ELSE r.val
    ELSE old

\* The body of the inner loop of lines 89-92 for one argument and one j
\* (slot k = j + 1): a matching prefix stores the converted suffix, or 0.
PrefixSlot(old, a, k) ==
  IF startswith(a, cparams[k])
    THEN LET r == sscanf_d(Suffix(a, cparams[k]))
         IN  IF r.n # 1 THEN 0 ELSE r.val
    ELSE old

\* The inner loop of lines 89-92 for one argument: iteration j writes
\* slot j only.
PrefixArg(v, a) == [k \in 1..nparams |-> PrefixSlot(v[k], a, k)]

\* The outer loop of line 88, from argument i to the terminating null.
RECURSIVE PrefixScan(_, _, _)
PrefixScan(v, args, i) ==
  IF i <= Len(args) THEN PrefixScan(PrefixArg(v, args[i]), args, i + 1) ELSE v

\* Lines 95-96: rt points at slot 3 unless that slot is nonzero; TRUE when
\* the pointer handed to the file loader is not null.
RtNonNull(v) == v[4] = 0

\* NoGeometry with || for &&: any geometry slot absent.
NoGeometryAny(v) == v[1] = 0 \/ v[2] = 0 \/ v[3] = 0

\* Line 97: no geometry arguments on the command line.
NoGeometry(v) == v[1] = 0 /\ v[2] = 0 /\ v[3] = 0

\* ------------------------------------------------------- file defaults
\* ReadHpcgDat(iparams, rt, iparams + 7) on a source f that supplies the
\* geometry integers f.dims (up to three), the runtime f.rt (none or one)
\* and the process grid f.np: the geometry goes to slots 0.., the runtime
\* to *rt when rt is not null, the process grid to slots 7..; what the
\* source does not supply is left alone.
ReadHpcgDat(v, rtNonNull, f) ==
  [k \in 1..nparams |->
     IF k <= 3 THEN (IF k <= Len(f.dims) THEN f.dims[k] ELSE v[k])
     ELSE IF k = 4 THEN (IF rtNonNull /\ Len(f.rt) > 0 THEN f.rt[1] ELSE v[k])
     ELSE IF k >= 8 THEN (IF k - 7 <= Len(f.np) THEN f.np[k - 7] ELSE v[k])
     ELSE v[k]]

\* ReadFlag set only when the source supplied the whole geometry.
ReadFlagIfComplete(f) == Len(f.dims) = 3

\* Line 99: broadcastParams after the file was consulted.
ReadFlag(f) == TRUE

\* ---------------------------------------------------------- normalizer
\* Line 107-108 for dimension i and offset j (0-based i, slots i + 1).
Raise(v, i, j) ==
  IF v[((i + j) % 3) + 1] > v[i + 1]
    THEN [v EXCEPT ![i + 1] = v[((i + j) % 3) + 1]]
    ELSE v

\* RaiseLoop looking at one sibling only (j = 1).
RaiseLoopOneSibling(v, i) == IF v[i + 1] < MinDim THEN Raise(v, i, 1) ELSE v

\* Lines 105-108: the j loop, j = 1, 2, run only for a dimension below 16.
RaiseLoop(v, i) == IF v[i + 1] < MinDim THEN Raise(Raise(v, i, 1), i, 2) ELSE v

\* Clamp left out.
ClampNone(v, i) == v

\* Lines 109-110.
Clamp(v, i) == IF v[i + 1] < MinDim THEN [v EXCEPT ![i + 1] = MinDim] ELSE v

\* Lines 104-111: the i loop, i = 0, 1, 2.
Normalize(v) ==
  LET v0 == Clamp(RaiseLoop(v, 0), 0)
      v1 == Clamp(RaiseLoop(v0, 1), 1)
  IN  Clamp(RaiseLoop(v1, 2), 2)

\* ----------------------------------------------------------- broadcast
\* Received with a count of 3: the geometry slots only.
ReceivedGeometryOnly(own, root) == [k \in 1..nparams |-> IF k <= 3 THEN root[k] ELSE own[k]]

\* MPI_Bcast(iparams, nparams, MPI_INT, 0, ...): what a process holds on
\* return, given its own buffer and the root's.
Received(own, root) == [k \in 1..nparams |-> root[k]]

\* --------------------------------------------------------- log channel
\* A sink that is no named log file.
NoName == [stamp |-> <<>>, rank |-> <<>>]

\* LogSink opening the name of line 151, without the rank, in the debug build.
LogSinkNoRank(rank, debug, stamp) ==
  IF 0 = rank THEN [kind |-> "stdout", name |-> NoName]
  ELSE IF debug THEN [kind |-> "file", name |-> [stamp |-> <<stamp>>, rank |-> <<>>]]
  ELSE [kind |-> "null", name |-> NoName]

\* Lines 154-166: the sink HPCG_fout is bound to.  The file name
\* "hpcg<stamp>_<rank>.txt" is kept as its two variable parts.
LogSink(rank, debug, stamp) ==
  IF 0 = rank THEN [kind |-> "stdout", name |-> NoName]
  ELSE IF debug THEN [kind |-> "file", name |-> [stamp |-> <<stamp>>, rank |-> <<rank>>]]
  ELSE [kind |-> "null", name |-> NoName]

\* -------------------------------------------------------------- inputs
RECURSIVE Dec(_)
Dec(n) == IF n < 10 THEN <<Digits[n + 1]>> ELSE Dec(n \div 10) \o <<Digits[(n % 10) + 1]>>

Num(n) == IF n < 0 THEN <<"-">> \o Dec(-n) ELSE Dec(n)

\* The argument "--name=n" for prefix k.
Flag(k, n) == cparams[k] \o Num(n)

\* Arguments of the command-line specification.
ArgPool ==
  { Num(64), Num(9), <<"1", "2", "x">>,
    Flag(1, 8), cparams[1], Flag(2, -5), Flag(4, 30), Flag(8, 2),
    <<"-", "-", "f", "o", "o", "=", "7">> }

RECURSIVE SeqsUpTo(_, _)
SeqsUpTo(S, n) ==
  IF n = 0 THEN {<<>>}
  ELSE LET shorter == SeqsUpTo(S, n - 1)
       IN  shorter \cup {Append(q, x) : q \in {r \in shorter : Len(r) = n - 1}, x \in S}

\* Geometry values given as --nx= --ny= --nz=.
DimValues == {-20, 0, 8, 15, 16, 17, 64}

DimArgLists == {<<Flag(1, a), Flag(2, b), Flag(3, c)>> : a, b, c \in DimValues}

ArgLists == SeqsUpTo(ArgPool, MaxArgs) \cup DimArgLists

\* Argument lists of the group specification.
GroupArgLists ==
  { <<>>,
    <<Flag(1, 8), Flag(2, 64), Flag(3, 8)>>,
    <<Flag(1, 100), Flag(2, 100), Flag(3, 100), Flag(4, 30)>>,
    <<Flag(4, 30)>>,
    <<Flag(4, 0)>>,
    <<Flag(2, -5), Flag(4, 30), Flag(8, 2)>>,
    <<Flag(1, 0), cparams[3], <<"x">>, Flag(5, 3)>> }

\* What the configuration source can hold when a process reads it: a full
\* file, and one with two small geometry values, no runtime and two of the
\* three process-grid values.
FileContents ==
  { [dims |-> <<32, 32, 32>>, rt |-> <<60>>, np |-> <<1, 1, 1>>],
    [dims |-> <<8, -4>>, rt |-> <<>>, np |-> <<2, 1>>] }

NotRead == [dims |-> <<>>, rt |-> <<>>, np |-> <<>>, read |-> FALSE]

\* omp_get_num_threads() of the default team; time() at the call.
ThreadCounts == {4}
Stamps == {1, 2}

\* --------------------------------------------------------------- state
VARIABLES
  argv,            \* the argument list every process was started with
  debugBuild,      \* HPCG_DEBUG or HPCG_DETAILED_DEBUG defined in the build
  pc,              \* pc[p]: where process p is in HPCG_Init
  iparams,         \* iparams[p]: the ten-slot buffer of process p
  broadcastParams, \* broadcastParams[p]
  fileRead,        \* fileRead[p]: what ReadHpcgDat found on p, NotRead before
  entered,         \* the processes that have called MPI_Bcast
  bcastBuf,        \* the root's buffer as handed to MPI_Bcast
  params,          \* params[p]: the HPCG_Params of process p
  HPCG_fout,       \* HPCG_fout[p]: the sink of the log stream of process p
  ret              \* ret[p]: the value HPCG_Init returned on p

vars == <<argv, debugBuild, pc, iparams, broadcastParams, fileRead, entered,
          bcastBuf, params, HPCG_fout, ret>>

Procs == 0 .. NumProcs - 1

\* params before HPCG_Init has written it, and ret before it has returned:
\* values the code never reads.
UnsetParams ==
  [nx |-> -1, ny |-> -1, nz |-> -1, runningTime |-> -1, pz |-> -1, zl |-> -1,
   zu |-> -1, npx |-> -1, npy |-> -1, npz |-> -1, comm_rank |-> -1,
   comm_size |-> -1, numThreads |-> -1]
NotReturned == -1

\* iparams after free().
Freed == <<>>

InitWith(lists) ==
  /\ argv \in lists
  /\ debugBuild \in BOOLEAN
  /\ pc = [p \in Procs |-> "positional"]
  /\ iparams = [p \in Procs |-> ZeroParams]
  /\ broadcastParams = [p \in Procs |-> FALSE]
  /\ fileRead = [p \in Procs |-> NotRead]
  /\ entered = {}
  /\ bcastBuf = ZeroParams
  /\ params = [p \in Procs |-> UnsetParams]
  /\ HPCG_fout = [p \in Procs |-> [kind |-> "closed", name |-> NoName]]
  /\ ret = [p \in Procs |-> NotReturned]

Init == InitWith(GroupArgLists)

\* Lines 78-85.
Positional(p) ==
  /\ pc[p] = "positional"
  /\ iparams' = [iparams EXCEPT ![p] = PositionalScan(argv)]
  /\ pc' = [pc EXCEPT ![p] = "prefix"]
  /\ UNCHANGED <<argv, debugBuild, broadcastParams, fileRead, entered, bcastBuf,
                 params, HPCG_fout, ret>>

\* Lines 87-92.
Prefix(p) ==
  /\ pc[p] = "prefix"
  /\ iparams' = [iparams EXCEPT ![p] = PrefixScan(iparams[p], argv, 1)]
  /\ pc' = [pc EXCEPT ![p] = "read"]
  /\ UNCHANGED <<argv, debugBuild, broadcastParams, fileRead, entered, bcastBuf,
                 params, HPCG_fout, ret>>

\* Lines 78-92 in one step: the command-line stage of a process of the group.
ParseArgs(p) ==
  /\ pc[p] = "positional"
  /\ iparams' = [iparams EXCEPT ![p] = PrefixScan(PositionalScan(argv), argv, 1)]
  /\ pc' = [pc EXCEPT ![p] = "read"]
  /\ UNCHANGED <<argv, debugBuild, broadcastParams, fileRead, entered, bcastBuf,
                 params, HPCG_fout, ret>>

\* Lines 94-100, the branch taken.
ReadDefaults(p) ==
  /\ pc[p] = "read"
  /\ NoGeometry(iparams[p])
  /\ \E f \in FileContents :
       /\ iparams' = [iparams EXCEPT ![p] = ReadHpcgDat(iparams[p], RtNonNull(iparams[p]), f)]
       /\ fileRead' = [fileRead EXCEPT ![p] = [dims |-> f.dims, rt |-> f.rt, np |-> f.np, read |-> TRUE]]
       /\ broadcastParams' = [broadcastParams EXCEPT ![p] = ReadFlag(f)]
  /\ pc' = [pc EXCEPT ![p] = "normalize"]
  /\ UNCHANGED <<argv, debugBuild, entered, bcastBuf, params, HPCG_fout, ret>>

\* Lines 94-100, the branch not taken.
SkipDefaults(p) ==
  /\ pc[p] = "read"
  /\ ~NoGeometry(iparams[p])
  /\ pc' = [pc EXCEPT ![p] = "normalize"]
  /\ UNCHANGED <<argv, debugBuild, iparams, broadcastParams, fileRead, entered,
                 bcastBuf, params, HPCG_fout, ret>>

\* Lines 102-111.
NormalizeStep(p) ==
  /\ pc[p] = "normalize"
  /\ iparams' = [iparams EXCEPT ![p] = Normalize(iparams[p])]
  /\ pc' = [pc EXCEPT ![p] = "bcast"]
  /\ UNCHANGED <<argv, debugBuild, broadcastParams, fileRead, entered, bcastBuf,
                 params, HPCG_fout, ret>>

\* Lines 115-116: the call of MPI_Bcast; the root hands over its buffer.
BcastEnter(p) ==
  /\ pc[p] = "bcast"
  /\ broadcastParams[p]
  /\ entered' = entered \cup {p}
  /\ bcastBuf' = IF p = 0 THEN iparams[p] ELSE bcastBuf
  /\ pc' = [pc EXCEPT ![p] = "inbcast"]
  /\ UNCHANGED <<argv, debugBuild, iparams, broadcastParams, fileRead, params,
                 HPCG_fout, ret>>

\* Line 115 with broadcastParams false.
BcastSkip(p) ==
  /\ pc[p] = "bcast"
  /\ ~broadcastParams[p]
  /\ pc' = [pc EXCEPT ![p] = "assign"]
  /\ UNCHANGED <<argv, debugBuild, iparams, broadcastParams, fileRead, entered,
                 bcastBuf, params, HPCG_fout, ret>>

\* Line 116: the return of MPI_Bcast.  The call blocks until the root's data
\* is there; the root itself may return as soon as it has handed it over
\* (MPI lets a collective synchronize or not).
BcastReturn(p) ==
  /\ pc[p] = "inbcast"
  /\ 0 \in entered
  /\ iparams' = [iparams EXCEPT ![p] = Received(iparams[p], bcastBuf)]
  /\ pc' = [pc EXCEPT ![p] = "assign"]
  /\ UNCHANGED <<argv, debugBuild, broadcastParams, fileRead, entered, bcastBuf,
                 params, HPCG_fout, ret>>

\* Lines 120-146.
AssignParams(p) ==
  /\ pc[p] = "assign"
  /\ \E t \in ThreadCounts :
       params' = [params EXCEPT ![p] =
         [nx |-> iparams[p][1], ny |-> iparams[p][2], nz |-> iparams[p][3],
          runningTime |-> iparams[p][4],
          pz |-> iparams[p][5], zl |-> iparams[p][6], zu |-> iparams[p][7],
          npx |-> iparams[p][8], npy |-> iparams[p][9], npz |-> iparams[p][10],
          comm_rank |-> p, comm_size |-> NumProcs, numThreads |-> t]]
  /\ pc' = [pc EXCEPT ![p] = "log"]
  /\ UNCHANGED <<argv, debugBuild, iparams, broadcastParams, fileRead, entered,
                 bcastBuf, HPCG_fout, ret>>

\* Lines 149-170: the log stream is bound, the buffer freed, 0 returned.
LogInit(p) ==
  /\ pc[p] = "log"
  /\ \E stamp \in Stamps :
       HPCG_fout' = [HPCG_fout EXCEPT ![p] = LogSink(params[p].comm_rank, debugBuild, stamp)]
  /\ iparams' = [iparams EXCEPT ![p] = Freed]
  /\ ret' = [ret EXCEPT ![p] = 0]
  /\ pc' = [pc EXCEPT ![p] = "done"]
  /\ UNCHANGED <<argv, debugBuild, broadcastParams, fileRead, entered, bcastBuf,
                 params>>

\* HPCG_Init on process p.
Step(p) ==
  \/ ParseArgs(p)
  \/ ReadDefaults(p)
  \/ SkipDefaults(p)
  \/ NormalizeStep(p)
  \/ BcastEnter(p)
  \/ BcastSkip(p)
  \/ BcastReturn(p)
  \/ AssignParams(p)
  \/ LogInit(p)

Next == \E p \in Procs : Step(p)

Spec == Init /\ [][Next]_vars

\* Argument lists of the fair specification: one that leads to the
\* broadcast and one that does not.
FairArgLists == {<<>>, <<Flag(1, 8), Flag(2, 64), Flag(3, 8)>>}

InitFair == InitWith(FairArgLists)

\* The group under a scheduler that never stops while a process can run.
FairSpec == InitFair /\ [][Next]_vars /\ WF_vars(Next)

\* One process from its arguments to the end of normalization.
InitArgs == InitWith(ArgLists)

NextArgs ==
  \/ Positional(0)
  \/ Prefix(0)
  \/ ReadDefaults(0)
  \/ SkipDefaults(0)
  \/ NormalizeStep(0)

SpecArgs == InitArgs /\ [][NextArgs]_vars

\* ============================================================== claims
\* Vocabulary of the properties below.
AllDone == \A p \in Procs : pc[p] = "done"

\* The ten resolved parameters of a process.
ParamVec(r) == <<r.nx, r.ny, r.nz, r.runningTime, r.pz, r.zl, r.zu, r.npx, r.npy, r.npz>>

\* The slots as the command line leaves them.
CliSlots == PrefixScan(PositionalScan(argv), argv, 1)

GeometryAbsent(v) == \A k \in 1..3 : v[k] = 0

\* Two vectors hold the same value in each of their first n slots.
SameSlots(a, b, n) == \A k \in 1..n : a[k] = b[k]

\* The vector of rank 0 after file loading and normalization.
RootNormalized ==
  LET cli == CliSlots
  IN  Normalize(ReadHpcgDat(cli, cli[4] = 0, fileRead[0]))

\* The arguments carrying prefix k, the last of them, and its value.
FlagPlaces(k) == {i \in 1..Len(argv) : startswith(argv[i], cparams[k])}

HasFlag(k) == FlagPlaces(k) # {}

LastFlagValue(k) ==
  LET last == CHOOSE i \in FlagPlaces(k) : \A j \in FlagPlaces(k) : j <= i
      r == sscanf_d(Suffix(argv[last], cparams[k]))
  IN  IF r.n = 1 THEN r.val ELSE 0

PastRead == {"normalize", "bcast", "inbcast", "assign", "log", "done"}
PastDecision == {"inbcast", "assign", "log", "done"}

\* C1: once every process has returned, the ten resolved parameters are the
\* same on every process; when the command line gave no geometry they are
\* rank 0's normalized vector, whatever the other processes read.
C1_GroupAgreement ==
  AllDone =>
    /\ \A p, q \in Procs : SameSlots(ParamVec(params[p]), ParamVec(params[q]), nparams)
    /\ GeometryAbsent(CliSlots) =>
         LET root == RootNormalized
         IN  \A p \in Procs : SameSlots(ParamVec(params[p]), root, nparams)

\* C1 happens: all returned, no geometry on the command line, and two
\* processes other than rank 0 of which one read something else than rank 0.
C1_Witness ==
  /\ AllDone
  /\ argv = <<>>
  /\ \E p \in Procs \ {0} : fileRead[p] # fileRead[0]
  /\ params[1].runningTime = 60

\* C2: every process eventually returns from HPCG_Init with status 0, the
\* whole group having entered the broadcast or none of it.
C2_AgreeAndReturn ==
  <>(/\ \A p \in Procs : pc[p] = "done" /\ ret[p] = 0
     /\ (entered = Procs \/ entered = {}))

\* C2 happens: the whole group went through the broadcast and returned 0.
C2_Witness ==
  /\ AllDone
  /\ entered = Procs
  /\ \A p \in Procs : ret[p] = 0

\* C3: no process of rank other than 0 invokes the file loader.
C3_OnlyRootReads == \A p \in Procs \ {0} : ~fileRead[p].read

\* C4: a process reads the file, and enters the broadcast, exactly when the
\* geometry slots are all 0 after command-line parsing; the buffer rank 0
\* hands to the broadcast is its vector after loading and normalization, and
\* a process leaves the broadcast holding all ten slots of it.
C4_BroadcastIffFile ==
  LET absent == GeometryAbsent(CliSlots)
      root == RootNormalized
  IN  \A p \in Procs :
        /\ pc[p] \in PastRead => (fileRead[p].read <=> absent)
        /\ pc[p] \in PastDecision => ((p \in entered) <=> absent)
        /\ ~absent => (~fileRead[p].read /\ p \notin entered)
        /\ p \in entered => (fileRead[p].read /\ pc[p] \in PastDecision)
        /\ 0 \in entered => SameSlots(bcastBuf, root, nparams)
        /\ (p \in entered /\ pc[p] = "assign") => SameSlots(iparams[p], root, nparams)

\* C4 happens: a process other than rank 0, which read a file unlike rank
\* 0's, is back from the broadcast.
C4_Witness ==
  /\ pc[1] = "assign"
  /\ 1 \in entered
  /\ fileRead[1] # fileRead[0]
  /\ bcastBuf[8] = 2

\* C5: on every process that has returned, nx, ny and nz are at least 16.
C5_GeometryFloor ==
  \A p \in Procs :
    pc[p] \in {"log", "done"} =>
      (params[p].nx >= 16 /\ params[p].ny >= 16 /\ params[p].nz >= 16)

\* C5 happens: a process other than rank 0 returned with the vector of a
\* rank 0 that read the geometry 8, -4 and nothing for nz.
C5_Witness ==
  /\ pc[1] = "done"
  /\ 1 \in entered
  /\ fileRead[0].read
  /\ fileRead[0].dims = <<8, -4>>
  /\ ParamVec(params[1])[1] = 16

\* C6: with --rt= on the command line the resolved runningTime is the given
\* value, whatever the file holds; without it and without geometry it is
\* what the file loader supplied.
C6_RuntimeFromFlag ==
  \A p \in Procs :
    pc[p] = "done" =>
      /\ HasFlag(4) => params[p].runningTime = LastFlagValue(4)
      /\ (~HasFlag(4) /\ GeometryAbsent(CliSlots)) =>
           params[p].runningTime =
             (IF Len(fileRead[0].rt) > 0 THEN fileRead[0].rt[1] ELSE 0)

\* C7: only the first three arguments are read positionally: after the
\* positional scan the slots of runningTime .. npz are 0, and after the
\* prefix scan they are 0 unless an argument carries their prefix.
C7_PositionalFirstThree ==
  /\ pc[0] = "prefix" => \A k \in 4..nparams : iparams[0][k] = 0
  /\ pc[0] = "read" => \A k \in 4..nparams : (~HasFlag(k) => iparams[0][k] = 0)

\* C8: the prefix scan leaves in each slot the value of the last argument
\* carrying the slot's prefix (0 when its suffix is no integer), and leaves a
\* slot no argument names as the positional scan left it.
C8_LastFlagWins ==
  [][(pc[0] = "prefix" /\ pc'[0] = "read") =>
       \A k \in 1..nparams :
         iparams'[0][k] = (IF HasFlag(k) THEN LastFlagValue(k) ELSE iparams[0][k])]_vars

\* C8 happens: nx was set positionally, then by --nx=8, then reset by an
\* unparsable --nx=, while an unknown argument went by.
C8_Witness ==
  /\ pc[0] = "read"
  /\ Len(argv) = 4
  /\ argv[1] = Num(64)
  /\ argv[2] = Flag(1, 8)
  /\ argv[3] = <<"-", "-", "f", "o", "o", "=", "7">>
  /\ argv[4] = cparams[1]
  /\ iparams[0][1] = 0

\* The reference rule of the normalizer: dimensions in order; one below 16
\* becomes the maximum of the other two as they then are, or 16 if that is
\* below 16; one of 16 or more stays.
Max2(a, b) == IF a >= b THEN a ELSE b

RefDim(d, i) ==
  IF d[i] >= 16 THEN d
  ELSE LET m == Max2(d[(i % 3) + 1], d[((i + 1) % 3) + 1])
       IN  [d EXCEPT ![i] = IF m < 16 THEN 16 ELSE m]

RefNormalize(d) == RefDim(RefDim(RefDim(d, 1), 2), 3)

\* C9: the normalizer step yields the reference rule's result on the
\* geometry slots and leaves the other slots alone.
C9_NormalizerRule ==
  [][(pc[0] = "normalize" /\ pc'[0] = "bcast") =>
       /\ SameSlots(iparams'[0], RefNormalize(SubSeq(iparams[0], 1, 3)), 3)
       /\ \A k \in 4..nparams : iparams'[0][k] = iparams[0][k]]_vars

\* C9 happens: --nx=8 --ny=64 --nz=8 was normalized to 64, 64, 64.
C9_Witness ==
  /\ pc[0] = "bcast"
  /\ argv = <<Flag(1, 8), Flag(2, 64), Flag(3, 8)>>
  /\ SameSlots(iparams[0], <<64, 64, 64>>, 3)

\* C10: after initialization exactly rank 0 logs to standard output; every
\* other process has the null device (default build) or a file named with
\* its rank (debug build), and no two processes share a log file.
C10_LogChannels ==
  AllDone =>
    /\ \A p \in Procs : (HPCG_fout[p].kind = "stdout") <=> (p = 0)
    /\ \A p \in Procs \ {0} :
         IF debugBuild
           THEN HPCG_fout[p].kind = "file" /\ HPCG_fout[p].name.rank = <<p>>
           ELSE HPCG_fout[p].kind = "null"
    /\ Cardinality({p \in Procs : HPCG_fout[p].kind = "stdout"}) = 1
    /\ \A p, q \in Procs :
         (p # q /\ HPCG_fout[p].kind = "file" /\ HPCG_fout[q].kind = "file")
           => HPCG_fout[p].name # HPCG_fout[q].name

\* C10 happens: a debug build in which two processes other than rank 0
\* opened their files within the same second.
C10_Witness ==
  /\ AllDone
  /\ debugBuild
  /\ HPCG_fout[1].kind = "file"
  /\ HPCG_fout[2].kind = "file"
  /\ HPCG_fout[1].name.stamp = HPCG_fout[2].name.stamp

====
